---- MODULE Spec2Model ----
(***************************************************************************)
(* DML generation of the syncer (syncer/dml.go): genInsertSQLs,            *)
(* genUpdateSQLs, genDeleteSQLs and the helpers they call.                 *)
(*                                                                         *)
(* Conventions of the model                                                *)
(*  - a Go string is a sequence of one-character strings (Text), so that   *)
(*    formatting, lower-casing and substring search are computed;          *)
(*  - an unsigned 32/64-bit number is a little-endian sequence of base     *)
(*    2^16 limbs (2 resp. 4 limbs); TLC's integers are 32-bit signed;      *)
(*  - an interface{} value is a record [kind, v, l, s]: kind is the        *)
(*    dynamic type, v a small integer, l the limbs, s a text;              *)
(*  - column.idx and all positions are 1-based (0-based in Go);            *)
(*  - a Go map is a function; a `range` over it visits the keys in an      *)
(*    order the runtime chooses, passed to the operators as `order`.       *)
(***************************************************************************)
EXTENDS Integers, Sequences, FiniteSets, TLC

(***************************************************************************)
(* Text                                                                    *)
(***************************************************************************)
Digits == <<"0", "1", "2", "3", "4", "5", "6", "7", "8", "9">>

Uppers == <<"A", "B", "C", "D", "E", "F", "G", "H", "I", "J", "K", "L", "M",
            "N", "O", "P", "Q", "R", "S", "T", "U", "V", "W", "X", "Y", "Z">>

Lowers == <<"a", "b", "c", "d", "e", "f", "g", "h", "i", "j", "k", "l", "m",
            "n", "o", "p", "q", "r", "s", "t", "u", "v", "w", "x", "y", "z">>

\* strings.ToLower, one character
ToLowerChar(c) ==
    IF \E i \in 1..Len(Uppers) : Uppers[i] = c
    THEN Lowers[CHOOSE i \in 1..Len(Uppers) : Uppers[i] = c]
    ELSE c

\* strings.ToLower
ToLower(s) == [i \in 1..Len(s) |-> ToLowerChar(s[i])]

\* strings.Contains
Contains(s, sub) ==
    \E i \in 0..(Len(s) - Len(sub)) : SubSeq(s, i + 1, i + Len(sub)) = sub

\* strings.Join
RECURSIVE Join(_, _)
Join(parts, sep) ==
    IF Len(parts) = 0 THEN <<>>
    ELSE IF Len(parts) = 1 THEN parts[1]
    ELSE parts[1] \o sep \o Join(Tail(parts), sep)

\* base-10 text of a natural number that fits TLC's integers
RECURSIVE FormatNat(_)
FormatNat(n) ==
    IF n < 10 THEN <<Digits[n + 1]>>
    ELSE FormatNat(n \div 10) \o <<Digits[(n % 10) + 1]>>

\* strconv.FormatInt(v, 10)
FormatInt(v) == IF v < 0 THEN <<"-">> \o FormatNat(-v) ELSE FormatNat(v)

(***************************************************************************)
(* Limbs: an unsigned number as little-endian base-2^16 digits             *)
(***************************************************************************)
Base == 256 * 256

IsZero(l) == \A i \in 1..Len(l) : l[i] = 0

\* remainder modulo 10 of the number made of the limbs i..Len(l)
RECURSIVE Rem10(_, _)
Rem10(l, i) ==
    IF i > Len(l) THEN 0 ELSE (Rem10(l, i + 1) * Base + l[i]) % 10

\* the number divided by 10
Quo10(l) == [i \in 1..Len(l) |-> (Rem10(l, i + 1) * Base + l[i]) \div 10]

\* strconv.FormatUint(u, 10) of a number given by its limbs
RECURSIVE FormatUint(_)
FormatUint(l) ==
    IF IsZero(Quo10(l)) THEN <<Digits[Rem10(l, 1) + 1]>>
    ELSE FormatUint(Quo10(l)) \o <<Digits[Rem10(l, 1) + 1]>>

\* carry out of position i of a + b (carry into position 1 is c0)
RECURSIVE CarryAdd(_, _, _, _)
CarryAdd(a, b, c0, i) ==
    IF i = 0 THEN c0
    ELSE IF a[i] + b[i] + CarryAdd(a, b, c0, i - 1) >= Base THEN 1 ELSE 0

\* a + b + c0 modulo Base^Len(a)
AddLimbs(a, b, c0) ==
    [i \in 1..Len(a) |-> (a[i] + b[i] + CarryAdd(a, b, c0, i - 1)) % Base]

\* the two's complement of a: ^a + 1
NegLimbs(a) ==
    AddLimbs([i \in 1..Len(a) |-> Base - 1 - a[i]],
             [i \in 1..Len(a) |-> 0], 1)

(***************************************************************************)
(* Values (interface{})                                                    *)
(***************************************************************************)
Nil == [kind |-> "nil", v |-> 0, l |-> <<>>, s |-> <<>>]

\* a value held in a Go integer of at most 32 bits, or a uint of at most 24
Small(kind, n) == [kind |-> kind, v |-> n, l |-> <<>>, s |-> <<>>]

\* uint32 / uint64 / uint, by limbs
Wide(kind, limbs) == [kind |-> kind, v |-> 0, l |-> limbs, s |-> <<>>]

\* int64 / int: sign (v = -1 or 1) and magnitude
Signed(kind, sign, limbs) == [kind |-> kind, v |-> sign, l |-> limbs, s |-> <<>>]

Str(text) == [kind |-> "string", v |-> 0, l |-> <<>>, s |-> text]

\* uint32(v) of an int32 v: the same 32 bits
Uint32(v) ==
    IF v >= 0 THEN <<v % Base, v \div Base>>
    ELSE LET w == (v + 2147483647) + 1
         IN  <<w % Base, (w \div Base) + (Base \div 2)>>

\* uint64(v) of an int64 v: the same 64 bits
Uint64(d) == IF d.v < 0 THEN NegLimbs(d.l) ELSE d.l

Mediumint == <<"m", "e", "d", "i", "u", "m", "i", "n", "t">>

\* binary.LittleEndian.PutUint32(data, u): the four bytes of u
PutUint32(u) ==
    <<u[1] % 256, u[1] \div 256, u[2] % 256, u[2] \div 256>>

castUnsignedMutWide(data, unsigned, tp) ==
    IF ~unsigned THEN data
    ELSE CASE data.kind = "int" -> Wide("uint", Uint64(data))
           [] data.kind = "int8" ->
                Small("uint8", IF data.v < 0 THEN data.v + 256 ELSE data.v)
           [] data.kind = "int16" ->
                Small("uint16", IF data.v < 0 THEN data.v + Base ELSE data.v)
           [] data.kind = "int32" -> Wide("uint32", Uint32(data.v))
           [] data.kind = "int64" -> Str(FormatUint(Uint64(data)))
           [] OTHER -> data

castUnsigned(data, unsigned, tp) ==
    IF ~unsigned THEN data
    ELSE CASE data.kind = "int" -> Wide("uint", Uint64(data))
           [] data.kind = "int8" ->
                Small("uint8", IF data.v < 0 THEN data.v + 256 ELSE data.v)
           [] data.kind = "int16" ->
                Small("uint16", IF data.v < 0 THEN data.v + Base ELSE data.v)
           [] data.kind = "int32" ->
                IF Contains(ToLower(tp), Mediumint)
                THEN LET b == PutUint32(Uint32(data.v))
                     IN  Wide("uint32", <<b[1] + b[2] * 256, b[3]>>)
                ELSE Wide("uint32", Uint32(data.v))
           [] data.kind = "int64" -> Str(FormatUint(Uint64(data)))
           [] OTHER -> data

columnValue(value, unsigned, tp) ==
    LET castValue == castUnsigned(value, unsigned, tp)
    IN  CASE castValue.kind = "nil" -> <<"n", "u", "l", "l">>
          [] castValue.kind \in {"int8", "int16", "int32"} -> FormatInt(castValue.v)
          [] castValue.kind \in {"int", "int64"} ->
                IF castValue.v < 0 /\ ~IsZero(castValue.l)
                THEN <<"-">> \o FormatUint(castValue.l)
                ELSE FormatUint(castValue.l)
          [] castValue.kind \in {"uint8", "uint16"} -> FormatNat(castValue.v)
          [] castValue.kind \in {"uint32", "uint"} -> FormatUint(castValue.l)
          [] castValue.kind = "string" -> castValue.s
          [] OTHER -> <<"?">>

(***************************************************************************)
(* Columns, indexes, rows                                                  *)
(***************************************************************************)
IntType == <<"i", "n", "t">>

\* the columns of the table `t`, in catalog order
ColumnNames == <<"id", "v">>

\* the *column of position i: id is unsigned, every column an int
column(i, notNull) ==
    [name |-> ColumnNames[i], idx |-> i, tp |-> IntType,
     unsigned |-> (i = 1), NotNull |-> notNull]

\* lines 38-41, 73-80, 147-150: the row after castUnsigned of every cell
castRow(columns, data) ==
    [i \in 1..Len(data) |->
        castUnsigned(data[i], columns[i].unsigned, columns[i].tp)]

genColumnList(columns) == [i \in 1..Len(columns) |-> columns[i].name]

genColumnPlaceholders(length) == [i \in 1..length |-> "?"]

getColumnData(columns, indexColumns, data) ==
    [cols   |-> indexColumns,
     values |-> [i \in 1..Len(indexColumns) |-> data[indexColumns[i].idx]]]

genKeyList(columns, dataSeq) ==
    Join([i \in 1..Len(dataSeq) |->
            columnValue(dataSeq[i], columns[i].unsigned, columns[i].tp)],
         <<",">>)

genMultipleKeysMutSkip(columns, value, indexColumns, order) ==
    LET ne == SelectSeq(order, LAMBDA k : Len(indexColumns[k]) > 0)
    IN  [i \in 1..Len(ne) |->
            LET cd == getColumnData(columns, indexColumns[ne[i]], value)
            IN  genKeyList(cd.cols, cd.values)]

\* `order`: the order in which range visits the keys of indexColumns
genMultipleKeys(columns, value, indexColumns, order) ==
    [i \in 1..Len(order) |->
        LET cd == getColumnData(columns, indexColumns[order[i]], value)
        IN  genKeyList(cd.cols, cd.values)]

\* fn: the predicate func(col *column) bool, as a function of the column
RECURSIVE getSpecifiedIndexColumn(_, _, _)
getSpecifiedIndexColumn(indexColumns, order, fn) ==
    IF Len(order) = 0 THEN <<>>
    ELSE LET indexCols == indexColumns[order[1]]
         IN  IF Len(indexCols) = 0
             THEN getSpecifiedIndexColumn(indexColumns, Tail(order), fn)
             ELSE IF \A i \in 1..Len(indexCols) : ~fn[indexCols[i]]
                  THEN indexCols
                  ELSE getSpecifiedIndexColumn(indexColumns, Tail(order), fn)

\* every column some index names
IndexedColumns(indexColumns) ==
    UNION {{indexColumns[k][i] : i \in 1..Len(indexColumns[k])} :
             k \in DOMAIN indexColumns}

findFitIndexMutNoPrimary(indexColumns, order) ==
    getSpecifiedIndexColumn(indexColumns, order,
        [c \in IndexedColumns(indexColumns) |-> ~c.NotNull])

findFitIndex(indexColumns, order) ==
    IF "primary" \in DOMAIN indexColumns /\ Len(indexColumns["primary"]) # 0
    THEN indexColumns["primary"]
    ELSE getSpecifiedIndexColumn(indexColumns, order,
            [c \in IndexedColumns(indexColumns) |-> ~c.NotNull])

getAvailableIndexColumn(indexColumns, order, data) ==
    getSpecifiedIndexColumn(indexColumns, order,
        [c \in IndexedColumns(indexColumns) |-> data[c.idx] = Nil])

genWhereMutEq(columns, data) ==
    [i \in 1..Len(columns) |-> [name |-> columns[i].name, op |-> "="]]

\* the clause as its terms `name` op ?, joined by AND
genWhere(columns, data) ==
    [i \in 1..Len(columns) |->
        [name |-> columns[i].name,
         op   |-> IF data[i] = Nil THEN "IS" ELSE "="]]

\* the clause as its terms `name` = ?, joined by commas
genKVs(columns) ==
    [i \in 1..Len(columns) |-> [name |-> columns[i].name, op |-> "="]]

\* a statement: its verb and the clauses the format string is filled with
Stmt(kind, columnList, placeholders, kvs, where) ==
    [kind |-> kind, columnList |-> columnList, placeholders |-> placeholders,
     kvs |-> kvs, where |-> where]

\* lines 43, 96: REPLACE INTO `schema`.`table` (columnList) VALUES (placeholders);
ReplaceSQL(columns) ==
    Stmt("REPLACE", genColumnList(columns),
         genColumnPlaceholders(Len(columns)), <<>>, <<>>)

genDeleteSQL(value, columns, indexColumns) ==
    LET cd == IF Len(indexColumns) > 0
              THEN getColumnData(columns, indexColumns, value)
              ELSE [cols |-> columns, values |-> value]
    IN  [sql   |-> Stmt("DELETE", <<>>, <<>>, <<>>, genWhere(cd.cols, cd.values)),
         value |-> cd.values]

(***************************************************************************)
(* Inputs                                                                  *)
(***************************************************************************)
MaxRows == 3

MaxCalls == 2

MaxDelta == 1

IndexNames == {"primary", "uk1", "uk2"}

CellValues == {Nil, Small("int8", -1)}

\* the elements of a set of positions, in increasing order
RECURSIVE Sorted(_)
Sorted(S) ==
    IF S = {} THEN <<>>
    ELSE LET m == CHOOSE a \in S : \A b \in S : a <= b
         IN  <<m>> \o Sorted(S \ {m})

\* the tables: a prefix of the columns, each NOT NULL or not
ColumnCatalogs ==
    UNION {{[i \in 1..n |-> column(i, nn[i])] : nn \in [1..n -> BOOLEAN]} :
             n \in 0..Len(ColumnNames)}

\* the column lists an index of the table may have
IndexLists(columns) ==
    {[i \in 1..Cardinality(S) |-> columns[Sorted(S)[i]]] :
        S \in SUBSET (1..Len(columns))}

\* the index catalogs declaring one of the name sets
IndexCatalogs(columns, nameSets) ==
    UNION {[D -> IndexLists(columns)] : D \in nameSets}

\* the orders a range over the map can take
Orders(indexColumns) ==
    LET D == DOMAIN indexColumns
    IN  {o \in [1..Cardinality(D) -> D] :
            \A i, j \in 1..Cardinality(D) : o[i] = o[j] => i = j}

\* rows a table can hold (no NULL in a NOT NULL column)
GoodRows(columns) ==
    {r \in [1..Len(columns) -> CellValues] :
        \A i \in 1..Len(columns) : r[i] = Nil => ~columns[i].NotNull}

\* the rows of an event: the good ones, one too long, one too short
Rows(columns) ==
    GoodRows(columns)
        \cup {[i \in 1..(Len(columns) + 1) |-> Nil]}
        \cup (IF Len(columns) > 0
              THEN {[i \in 1..(Len(columns) - 1) |-> Nil]} ELSE {})

\* the limbs of the 64-bit magnitudes k, 2^32 - k, 2^32 + k, 2^63 - k
Magnitudes ==
    UNION {{<<k, 0, 0, 0>>, <<k, 0, 1, 0>>,
            <<(Base - k) % Base, IF k = 0 THEN 0 ELSE Base - 1,
              IF k = 0 THEN 1 ELSE 0, 0>>,
            <<(Base - k) % Base, IF k = 0 THEN 0 ELSE Base - 1,
              IF k = 0 THEN 0 ELSE Base - 1,
              IF k = 0 THEN Base \div 2 ELSE (Base \div 2) - 1>>} :
             k \in 0..MaxDelta}
        \cup {<<39855, 71, 0, 0>>}

\* int64 (or int) values: -2^63 .. 2^63 - 1
SignedValues(kind) ==
    {Signed(kind, 1, m) : m \in Magnitudes \ {<<0, 0, 0, Base \div 2>>}}
        \cup {Signed(kind, -1, m) : m \in Magnitudes \ {<<0, 0, 0, 0>>}}

\* the values near 0 and near the ends of a signed type whose largest is max
NearEnds(kind, max) ==
    UNION {{Small(kind, k), Small(kind, -k), Small(kind, max - k),
            Small(kind, (k - max) - 1)} : k \in 0..MaxDelta}

\* the values castUnsigned is called with
CastValues ==
    NearEnds("int8", 127) \cup NearEnds("int16", 32767)
        \cup NearEnds("int32", 2147483647)
        \cup NearEnds("int32", 8388607)
        \cup {Small("int32", -4692783), Small("int32", 4692783)}
        \cup SignedValues("int64") \cup SignedValues("int")
        \cup {Nil, Small("uint8", 200), Str(<<"a">>)}

\* the declared types of the columns castUnsigned is called for
CastTypes ==
    {IntType, Mediumint,
     <<"M", "E", "D", "I", "U", "M", "I", "N", "T", "(", "8", ")">>,
     <<"b", "i", "g", "i", "n", "t">>}

(***************************************************************************)
(* State: one call of genInsertSQLs, genUpdateSQLs or genDeleteSQLs        *)
(***************************************************************************)
VARIABLES
    pc,                  \* "start": the function is called;
                         \* "loop": at the head of its loop, the rows of dataSeq
                         \*   read: what return sqls, keys, values, nil returns
                         \*   when dataSeq is the whole batch;
                         \* "err": an error was returned; "panic": it panicked
    op,                  \* "insert", "update", "delete": the function called
    safeMode,
    columns,
    indexColumns,
    dataSeq,             \* the rows of the batch the loop has read
    sqls, keys, values,
    defaultIndexColumns,
    whereIndex,          \* per statement: the index columns its WHERE was given
    callee, row, results,    \* an index helper called MaxCalls times on one input
    castArg, castRes         \* castUnsigned called on one input

vars == <<pc, op, safeMode, columns, indexColumns, dataSeq, sqls, keys, values,
          defaultIndexColumns, whereIndex, callee, row, results, castArg, castRes>>

FailedMutPartial ==
    [pc |-> "err", sqls |-> sqls, keys |-> keys, values |-> values,
     defaultIndexColumns |-> defaultIndexColumns, whereIndex |-> whereIndex]

\* return nil, nil, nil, errors.Errorf(...)
Failed ==
    [pc |-> "err", sqls |-> <<>>, keys |-> <<>>, values |-> <<>>,
     defaultIndexColumns |-> defaultIndexColumns, whereIndex |-> <<>>]

appendAllMutFront(sql, value, ks, dic) ==
    [pc |-> "loop",
     sqls |-> Append(sqls, sql),
     values |-> <<value>> \o values,
     keys |-> Append(keys, ks),
     defaultIndexColumns |-> dic,
     whereIndex |-> Append(whereIndex, dic)]

\* sqls = append(sqls, sql); values = append(values, value); keys = append(keys, ks)
appendAll(sql, value, ks, dic) ==
    [pc |-> "loop",
     sqls |-> Append(sqls, sql),
     values |-> Append(values, value),
     keys |-> Append(keys, ks),
     defaultIndexColumns |-> dic,
     whereIndex |-> Append(whereIndex, dic)]

\* the same for the two statements of a safe-mode update
appendBoth(r, sql, value, ks) ==
    [pc |-> "loop",
     sqls |-> Append(r.sqls, sql),
     values |-> Append(r.values, value),
     keys |-> Append(r.keys, ks),
     defaultIndexColumns |-> r.defaultIndexColumns,
     whereIndex |-> Append(r.whereIndex, <<>>)]

\* one iteration of the loop of genInsertSQLs
genInsertSQLs(data, order) ==
    IF Len(data) # Len(columns) THEN Failed
    ELSE LET value == castRow(columns, data)
             ks    == genMultipleKeys(columns, value, indexColumns, order)
         IN  appendAll(ReplaceSQL(columns), value, ks, <<>>)

\* one iteration of the loop of genDeleteSQLs
genDeleteSQLs(data, oAvail, oKeys) ==
    IF Len(data) # Len(columns) THEN Failed
    ELSE LET value == castRow(columns, data)
             dic   == IF Len(defaultIndexColumns) = 0
                      THEN getAvailableIndexColumn(indexColumns, oAvail, value)
                      ELSE defaultIndexColumns
             ks    == genMultipleKeys(columns, value, indexColumns, oKeys)
             d     == genDeleteSQL(value, columns, dic)
         IN  appendAll(d.sql, d.value, ks, dic)

genUpdateKeysMutSwap(oldValues, changedValues, oOld, oNew) ==
    genMultipleKeys(columns, changedValues, indexColumns, oNew)
        \o genMultipleKeys(columns, oldValues, indexColumns, oOld)

\* lines 86-87: the keys of the old row, then those of the new row
genUpdateKeys(oldValues, changedValues, oOld, oNew) ==
    genMultipleKeys(columns, oldValues, indexColumns, oOld)
        \o genMultipleKeys(columns, changedValues, indexColumns, oNew)

genUpdateSetMutChanged(oldValues, changedValues) ==
    LET ch == SelectSeq([j \in 1..Len(oldValues) |-> j],
                        LAMBDA j : oldValues[j] # changedValues[j])
    IN  [cols   |-> [j \in 1..Len(ch) |-> columns[ch[j]]],
         values |-> [j \in 1..Len(ch) |-> changedValues[ch[j]]]]

\* lines 103-108: updateColumns, updateValues
genUpdateSet(oldValues, changedValues) ==
    [cols   |-> [j \in 1..Len(oldValues) |-> columns[j]],
     values |-> [j \in 1..Len(oldValues) |-> changedValues[j]]]

\* one iteration of the loop of genUpdateSQLs
genUpdateSQLs(oldData, changedData, oAvail, oOld, oNew) ==
    IF Len(oldData) # Len(changedData) THEN Failed
    ELSE IF Len(oldData) # Len(columns) THEN Failed
    ELSE LET oldValues     == castRow(columns, oldData)
             changedValues == castRow(columns, changedData)
             dic == IF Len(defaultIndexColumns) = 0
                    THEN getAvailableIndexColumn(indexColumns, oAvail, oldValues)
                    ELSE defaultIndexColumns
             ks  == genUpdateKeys(oldValues, changedValues, oOld, oNew)
         IN  IF safeMode
             THEN LET d == genDeleteSQL(oldValues, columns, dic)
                  IN  appendBoth(appendAll(d.sql, d.value, ks, dic),
                                 ReplaceSQL(columns), changedValues, ks)
             ELSE LET up == genUpdateSet(oldValues, changedValues)
                  IN  IF Len(up.cols) = 0
                      THEN [pc |-> "loop", sqls |-> sqls, values |-> values,
                            keys |-> keys, defaultIndexColumns |-> dic,
                            whereIndex |-> whereIndex]
                      ELSE LET cd == IF Len(dic) > 0
                                     THEN getColumnData(columns, dic, oldValues)
                                     ELSE [cols |-> columns, values |-> oldValues]
                               sql == Stmt("UPDATE", <<>>, <<>>, genKVs(up.cols),
                                           genWhere(cd.cols, cd.values))
                           IN  appendAll(sql, up.values \o cd.values, ks, dic)

\* the variables an iteration writes
Iterate(r) ==
    /\ pc' = r.pc
    /\ sqls' = r.sqls
    /\ keys' = r.keys
    /\ values' = r.values
    /\ defaultIndexColumns' = r.defaultIndexColumns
    /\ whereIndex' = r.whereIndex

\* the variables of the other specifications
NoHelperCall ==
    /\ callee = "none" /\ row = <<>> /\ results = <<>>
    /\ castArg = [data |-> Nil, unsigned |-> FALSE, tp |-> IntType]
    /\ castRes = <<>>

\* catalogs of the batch calls: at most two indexes, a primary key NOT NULL
BatchCatalogs(cols) ==
    {ic \in IndexCatalogs(cols, {{}, {"primary"}, {"uk1"}, {"primary", "uk1"},
                                 {"uk1", "uk2"}}) :
        "primary" \in DOMAIN ic =>
            \A i \in 1..Len(ic["primary"]) : ic["primary"][i].NotNull}

Init ==
    /\ pc = "start"
    /\ op \in {"insert", "update", "delete"}
    /\ safeMode \in (IF op = "update" THEN BOOLEAN ELSE {FALSE})
    /\ columns \in ColumnCatalogs
    /\ indexColumns \in BatchCatalogs(columns)
    /\ dataSeq = <<>>
    /\ sqls = <<>>
    /\ keys = <<>>
    /\ values = <<>>
    /\ defaultIndexColumns = <<>>
    /\ whereIndex = <<>>
    /\ NoHelperCall

\* the function is entered: the statements before its loop
Call ==
    /\ pc = "start"
    /\ pc' = "loop"
    /\ \E order \in Orders(indexColumns) :
         defaultIndexColumns' =
            IF op = "insert" THEN <<>> ELSE findFitIndex(indexColumns, order)
    /\ UNCHANGED <<op, safeMode, columns, indexColumns, dataSeq, sqls, keys,
                   values, whereIndex, callee, row, results, castArg, castRes>>

InsertRow ==
    /\ pc = "loop" /\ op = "insert"
    /\ Len(dataSeq) < MaxRows
    /\ \E data \in Rows(columns), order \in Orders(indexColumns) :
         /\ Iterate(genInsertSQLs(data, order))
         /\ dataSeq' = Append(dataSeq, data)
    /\ UNCHANGED <<op, safeMode, columns, indexColumns, callee, row, results,
                   castArg, castRes>>

DeleteRow ==
    /\ pc = "loop" /\ op = "delete"
    /\ Len(dataSeq) < MaxRows
    /\ \E data \in Rows(columns), oAvail, oKeys \in Orders(indexColumns) :
         /\ Iterate(genDeleteSQLs(data, oAvail, oKeys))
         /\ dataSeq' = Append(dataSeq, data)
    /\ UNCHANGED <<op, safeMode, columns, indexColumns, callee, row, results,
                   castArg, castRes>>

\* data[i], data[i+1]; a batch of odd length has no data[i+1]: index out of range
UpdateRows ==
    /\ pc = "loop" /\ op = "update"
    /\ Len(dataSeq) < MaxRows
    /\ \E oldData \in Rows(columns), more \in BOOLEAN :
         IF ~more
         THEN /\ pc' = "panic"
              /\ dataSeq' = Append(dataSeq, oldData)
              /\ sqls' = <<>> /\ keys' = <<>> /\ values' = <<>>
              /\ whereIndex' = <<>>
              /\ UNCHANGED defaultIndexColumns
         ELSE \E changedData \in Rows(columns),
                 oAvail, oOld, oNew \in Orders(indexColumns) :
                /\ Iterate(genUpdateSQLs(oldData, changedData, oAvail, oOld, oNew))
                /\ dataSeq' = dataSeq \o <<oldData, changedData>>
    /\ UNCHANGED <<op, safeMode, columns, indexColumns, callee, row, results,
                   castArg, castRes>>

Next == Call \/ InsertRow \/ DeleteRow \/ UpdateRows

Spec == Init /\ [][Next]_vars

(***************************************************************************)
(* The index helpers, each called MaxCalls times on the same arguments     *)
(***************************************************************************)
NoBatch ==
    /\ pc = "idle" /\ op = "none" /\ safeMode = FALSE
    /\ dataSeq = <<>> /\ sqls = <<>> /\ keys = <<>> /\ values = <<>>
    /\ defaultIndexColumns = <<>> /\ whereIndex = <<>>

InitIdx ==
    /\ NoBatch
    /\ columns \in ColumnCatalogs
    /\ indexColumns \in IndexCatalogs(columns, SUBSET IndexNames)
    /\ callee \in {"findFitIndex", "getAvailableIndexColumn", "genMultipleKeys"}
    /\ row \in (IF callee = "findFitIndex" THEN {<<>>} ELSE GoodRows(columns))
    /\ results = <<>>
    /\ castArg = [data |-> Nil, unsigned |-> FALSE, tp |-> IntType]
    /\ castRes = <<>>

CallFindFitIndex ==
    /\ callee = "findFitIndex"
    /\ Len(results) < MaxCalls
    /\ \E order \in Orders(indexColumns) :
         results' = Append(results, findFitIndex(indexColumns, order))
    /\ UNCHANGED <<pc, op, safeMode, columns, indexColumns, dataSeq, sqls, keys,
                   values, defaultIndexColumns, whereIndex, callee, row, castArg,
                   castRes>>

CallGetAvailableIndexColumn ==
    /\ callee = "getAvailableIndexColumn"
    /\ Len(results) < MaxCalls
    /\ \E order \in Orders(indexColumns) :
         results' = Append(results,
            getAvailableIndexColumn(indexColumns, order, castRow(columns, row)))
    /\ UNCHANGED <<pc, op, safeMode, columns, indexColumns, dataSeq, sqls, keys,
                   values, defaultIndexColumns, whereIndex, callee, row, castArg,
                   castRes>>

CallGenMultipleKeys ==
    /\ callee = "genMultipleKeys"
    /\ Len(results) < MaxCalls
    /\ \E order \in Orders(indexColumns) :
         results' = Append(results,
            genMultipleKeys(columns, castRow(columns, row), indexColumns, order))
    /\ UNCHANGED <<pc, op, safeMode, columns, indexColumns, dataSeq, sqls, keys,
                   values, defaultIndexColumns, whereIndex, callee, row, castArg,
                   castRes>>

NextIdx == CallFindFitIndex \/ CallGetAvailableIndexColumn \/ CallGenMultipleKeys

SpecIdx == InitIdx /\ [][NextIdx]_vars

(***************************************************************************)
(* castUnsigned, called once                                               *)
(***************************************************************************)
InitCast ==
    /\ NoBatch
    /\ columns = <<>>
    /\ indexColumns = <<>>
    /\ callee = "castUnsigned" /\ row = <<>> /\ results = <<>>
    /\ castArg \in [data : CastValues, unsigned : BOOLEAN, tp : CastTypes]
    /\ castRes = <<>>

CallCastUnsigned ==
    /\ callee = "castUnsigned"
    /\ castRes = <<>>
    /\ castRes' = <<castUnsigned(castArg.data, castArg.unsigned, castArg.tp)>>
    /\ UNCHANGED <<pc, op, safeMode, columns, indexColumns, dataSeq, sqls, keys,
                   values, defaultIndexColumns, whereIndex, callee, row, results,
                   castArg>>

NextCast == CallCastUnsigned

SpecCast == InitCast /\ [][NextCast]_vars

(***************************************************************************)
(* What the claims speak of                                                *)
(***************************************************************************)
\* no error so far: the state the call returns if the batch ends here
Ok == pc = "loop"

NamesOf(cols) == [i \in 1..Len(cols) |-> cols[i].name]

WhereNames(stmt) == [i \in 1..Len(stmt.where) |-> stmt.where[i].name]

\* the values of a casted row at the positions of cols
Project(cols, casted) == [i \in 1..Len(cols) |-> casted[cols[i].idx]]

\* the identity key of a casted row under the index with columns cols
IdentityKey(cols, casted) ==
    Join([i \in 1..Len(cols) |->
            columnValue(casted[cols[i].idx], cols[i].unsigned, cols[i].tp)],
         <<",">>)

\* one identity key per declared index, the indexes taken in the order o
KeysIn(o, casted) ==
    [i \in 1..Len(o) |-> IdentityKey(indexColumns[o[i]], casted)]

HasPrimary ==
    "primary" \in DOMAIN indexColumns /\ indexColumns["primary"] # <<>>

AllNotNull(cols) == cols # <<>> /\ \A i \in 1..Len(cols) : cols[i].NotNull

\* the declared indexes every column of which is declared NOT NULL
NotNullIndexes ==
    {indexColumns[k] : k \in {n \in DOMAIN indexColumns : AllNotNull(indexColumns[n])}}

\* findFitIndex finds nothing in this catalog
FitEmpty == ~HasPrimary /\ NotNullIndexes = {}

\* the declared non-empty indexes all of whose columns are non-null in the row
Available(casted) ==
    {indexColumns[k] :
        k \in {n \in DOMAIN indexColumns :
                 /\ indexColumns[n] # <<>>
                 /\ \A i \in 1..Len(indexColumns[n]) :
                        casted[indexColumns[n][i].idx] # Nil}}

\* the before-state row statement i was generated from
BeforeOf(i) ==
    IF op = "update" /\ ~safeMode THEN dataSeq[2 * i - 1] ELSE dataSeq[i]

\* a row (or, in an update, a pair) the length checks reject is in the batch
Mismatch ==
    IF op = "update"
    THEN \E p \in 1..(Len(dataSeq) \div 2) :
            \/ Len(dataSeq[2 * p - 1]) # Len(dataSeq[2 * p])
            \/ Len(dataSeq[2 * p - 1]) # Len(columns)
    ELSE \E i \in 1..Len(dataSeq) : Len(dataSeq[i]) # Len(columns)

\* the number of statements a batch read without error yields
Expected ==
    IF op = "update" /\ ~safeMode
    THEN (IF Len(columns) = 0 THEN 0 ELSE Len(dataSeq) \div 2)
    ELSE Len(dataSeq)

(***************************************************************************)
(* C1: when findFitIndex finds nothing, every DELETE / UPDATE of the batch *)
(* has its WHERE over an index whose columns are all non-null in its own   *)
(* before-state row, and over every column when that row has no such index *)
(***************************************************************************)
C1_PerRowIndex ==
    (Ok /\ op \in {"delete", "update"} /\ FitEmpty) =>
        \A i \in 1..Len(sqls) :
            sqls[i].kind \in {"DELETE", "UPDATE"} =>
                LET A == Available(castRow(columns, BeforeOf(i)))
                IN  IF A = {}
                    THEN WhereNames(sqls[i]) = NamesOf(columns)
                    ELSE \E c \in A : WhereNames(sqls[i]) = NamesOf(c)

(***************************************************************************)
(* C2: in safe mode every pair yields a DELETE bound to the before-state   *)
(* values of its WHERE columns, then a REPLACE bound to the casted         *)
(* after-state row; both carry the before-state keys of every index        *)
(* followed by the after-state keys of every index; no UPDATE is emitted   *)
(***************************************************************************)
C2_SafeModePair ==
    (Ok /\ op = "update" /\ safeMode) =>
        /\ Len(sqls) = Len(dataSeq)
        /\ Len(values) = Len(dataSeq)
        /\ Len(keys) = Len(dataSeq)
        /\ \A i \in 1..Len(sqls) : sqls[i].kind # "UPDATE"
        /\ \A p \in 1..(Len(dataSeq) \div 2) :
             LET b == castRow(columns, dataSeq[2 * p - 1])
                 a == castRow(columns, dataSeq[2 * p])
                 W == IF whereIndex[2 * p - 1] # <<>>
                      THEN whereIndex[2 * p - 1] ELSE columns
             IN  /\ sqls[2 * p - 1].kind = "DELETE"
                 /\ WhereNames(sqls[2 * p - 1]) = NamesOf(W)
                 /\ values[2 * p - 1] = Project(W, b)
                 /\ sqls[2 * p].kind = "REPLACE"
                 /\ sqls[2 * p].columnList = NamesOf(columns)
                 /\ values[2 * p] = a
                 /\ keys[2 * p - 1] = keys[2 * p]
                 /\ \E o1, o2 \in Orders(indexColumns) :
                        keys[2 * p] = KeysIn(o1, b) \o KeysIn(o2, a)

C2_Witness ==
    /\ Ok /\ op = "update" /\ safeMode
    /\ Len(sqls) = 4
    /\ Cardinality(DOMAIN indexColumns) = 2
    /\ keys[1][1] # keys[1][3]
    /\ whereIndex[1] # <<>>

(***************************************************************************)
(* C3: every statement carries one identity key per declared index (two    *)
(* per index for an update), whatever index its WHERE uses                 *)
(***************************************************************************)
C3_KeyCount ==
    Ok =>
        \A i \in 1..Len(keys) :
            Len(keys[i]) = (IF op = "update" THEN 2 ELSE 1)
                              * Cardinality(DOMAIN indexColumns)

C3_Witness ==
    /\ Ok /\ op = "delete" /\ Len(keys) = 2
    /\ Cardinality(DOMAIN indexColumns) = 2
    /\ \E k \in DOMAIN indexColumns : indexColumns[k] = <<>>
    /\ \E j \in 1..Len(dataSeq[1]) : dataSeq[1][j] = Nil
    /\ whereIndex[1] = <<>> /\ whereIndex[2] # <<>>

(***************************************************************************)
(* C4: a row or pair of the wrong length makes the call return an error    *)
(* with empty sqls, keys and values, however many good rows came before; a *)
(* call that returns without error holds the statements of all its rows    *)
(***************************************************************************)
C4_AllOrNothing ==
    /\ (pc # "panic" /\ Mismatch) =>
            pc = "err" /\ sqls = <<>> /\ keys = <<>> /\ values = <<>>
    /\ pc = "err" => Mismatch /\ sqls = <<>> /\ keys = <<>> /\ values = <<>>
    /\ Ok =>
            /\ ~Mismatch
            /\ Len(sqls) = Expected /\ Len(keys) = Expected /\ Len(values) = Expected

C4_Witness ==
    /\ pc = "err" /\ op = "update" /\ Len(dataSeq) = 4
    /\ Len(dataSeq[3]) = Len(columns) /\ Len(dataSeq[4]) # Len(columns)

(***************************************************************************)
(* C5: the three sequences have one length and statement i, keys i and     *)
(* values i come from input row i (insert, delete), from pair i (update),  *)
(* or, in safe mode, statements 2i-1 and 2i from pair i                    *)
(***************************************************************************)
C5_AlignedInOrder ==
    Ok =>
        /\ Len(sqls) = Expected /\ Len(keys) = Expected /\ Len(values) = Expected
        /\ \A i \in 1..Len(sqls) :
             LET W == IF whereIndex[i] # <<>> THEN whereIndex[i] ELSE columns
             IN  CASE op = "insert" ->
                        LET c == castRow(columns, dataSeq[i])
                        IN  /\ sqls[i].kind = "REPLACE"
                            /\ values[i] = c
                            /\ \E o \in Orders(indexColumns) : keys[i] = KeysIn(o, c)
                   [] op = "delete" ->
                        LET c == castRow(columns, dataSeq[i])
                        IN  /\ sqls[i].kind = "DELETE"
                            /\ WhereNames(sqls[i]) = NamesOf(W)
                            /\ values[i] = Project(W, c)
                            /\ \E o \in Orders(indexColumns) : keys[i] = KeysIn(o, c)
                   [] op = "update" /\ ~safeMode ->
                        LET b == castRow(columns, dataSeq[2 * i - 1])
                            a == castRow(columns, dataSeq[2 * i])
                        IN  /\ sqls[i].kind = "UPDATE"
                            /\ WhereNames(sqls[i]) = NamesOf(W)
                            /\ values[i] = a \o Project(W, b)
                            /\ \E o1, o2 \in Orders(indexColumns) :
                                   keys[i] = KeysIn(o1, b) \o KeysIn(o2, a)
                   [] op = "update" /\ safeMode ->
                        LET p == (i + 1) \div 2
                            b == castRow(columns, dataSeq[2 * p - 1])
                            a == castRow(columns, dataSeq[2 * p])
                        IN  /\ sqls[i].kind = (IF i % 2 = 1 THEN "DELETE" ELSE "REPLACE")
                            /\ values[i] = (IF i % 2 = 1 THEN Project(W, b) ELSE a)
                            /\ \E o1, o2 \in Orders(indexColumns) :
                                   keys[i] = KeysIn(o1, b) \o KeysIn(o2, a)

C5_Witness ==
    /\ Ok /\ op = "delete" /\ Len(sqls) = 3
    /\ values[1] # values[2] /\ values[2] # values[3]
    /\ keys[1] # keys[2]

(***************************************************************************)
(* C6 as claimed: in every DELETE and UPDATE each WHERE term and each SET  *)
(* term is written with IS exactly when the value bound to it is null      *)
(***************************************************************************)
C6_IsIffNullEverywhere ==
    Ok =>
        \A i \in 1..Len(sqls) :
            sqls[i].kind \in {"DELETE", "UPDATE"} =>
                /\ \A j \in 1..Len(sqls[i].kvs) :
                       (sqls[i].kvs[j].op = "IS") <=> (values[i][j] = Nil)
                /\ \A j \in 1..Len(sqls[i].where) :
                       (sqls[i].where[j].op = "IS")
                           <=> (values[i][Len(sqls[i].kvs) + j] = Nil)

(***************************************************************************)
(* C6 amended: each WHERE term is written with IS exactly when the value   *)
(* bound to it is null and with = otherwise; each SET term is written with *)
(* =, also when the value bound to it is null                              *)
(***************************************************************************)
C6_WhereIsIffNull ==
    Ok =>
        \A i \in 1..Len(sqls) :
            sqls[i].kind \in {"DELETE", "UPDATE"} =>
                /\ Len(values[i]) = Len(sqls[i].kvs) + Len(sqls[i].where)
                /\ \A j \in 1..Len(sqls[i].kvs) : sqls[i].kvs[j].op = "="
                /\ \A j \in 1..Len(sqls[i].where) :
                       sqls[i].where[j].op =
                           (IF values[i][Len(sqls[i].kvs) + j] = Nil
                            THEN "IS" ELSE "=")

C6_Witness ==
    /\ Ok /\ Len(sqls) >= 1 /\ sqls[1].kind = "UPDATE"
    /\ \E j \in 1..Len(sqls[1].kvs) : values[1][j] = Nil
    /\ \E j \in 1..Len(sqls[1].where) :
          /\ values[1][Len(sqls[1].kvs) + j] = Nil
          /\ sqls[1].where[j].op = "IS"
    /\ \E j \in 1..Len(sqls[1].where) : sqls[1].where[j].op = "="

(***************************************************************************)
(* C7: findFitIndex returns the primary index when it is declared and not  *)
(* empty; otherwise a non-empty index whose columns are all NOT NULL when  *)
(* there is one, and nothing when there is none                            *)
(***************************************************************************)
C7_FindFitIndex ==
    callee = "findFitIndex" =>
        \A j \in 1..Len(results) :
            IF HasPrimary THEN results[j] = indexColumns["primary"]
            ELSE IF NotNullIndexes # {} THEN results[j] \in NotNullIndexes
            ELSE results[j] = <<>>

C7_Witness ==
    /\ callee = "findFitIndex" /\ Len(results) = 1
    /\ "primary" \in DOMAIN indexColumns /\ indexColumns["primary"] = <<>>
    /\ results[1] # <<>>
    /\ \E k \in DOMAIN indexColumns :
          indexColumns[k] # <<>> /\ ~AllNotNull(indexColumns[k])

IsDigit(c) == \E d \in 1..10 : Digits[d] = c

DigitOf(c) == (CHOOSE d \in 1..10 : Digits[d] = c) - 1

\* carry out of position i of l * m + a
RECURSIVE MulAddCarry(_, _, _, _)
MulAddCarry(l, m, a, i) ==
    IF i = 0 THEN a ELSE (l[i] * m + MulAddCarry(l, m, a, i - 1)) \div Base

MulAdd(l, m, a) ==
    [i \in 1..Len(l) |-> (l[i] * m + MulAddCarry(l, m, a, i - 1)) % Base]

\* the number the first n digits of a decimal text denote, modulo 2^64
RECURSIVE ParseUint(_, _)
ParseUint(text, n) ==
    IF n = 0 THEN <<0, 0, 0, 0>>
    ELSE MulAdd(ParseUint(text, n - 1), 10, DigitOf(text[n]))

\* a decimal text without sign or leading zero that denotes a number below 2^64
IsUint64Text(text) ==
    /\ Len(text) >= 1
    /\ \A i \in 1..Len(text) : IsDigit(text[i])
    /\ Len(text) > 1 => text[1] # "0"
    /\ \A n \in 1..Len(text) :
          MulAddCarry(ParseUint(text, n - 1), 10, DigitOf(text[n]), 4) = 0

MediumintNames ==
    {Mediumint, <<"M", "E", "D", "I", "U", "M", "I", "N", "T", "(", "8", ")">>}

C9_CastUnsigned ==
    castRes # <<>> =>
        LET d == castArg.data
            r == castRes[1]
        IN  IF ~castArg.unsigned THEN r = d
            ELSE CASE d.kind = "int8" -> r = Small("uint8", d.v % 256)
                   [] d.kind = "int16" -> r = Small("uint16", d.v % Base)
                   [] d.kind = "int32" /\ castArg.tp \in MediumintNames ->
                        /\ r.kind = "uint32" /\ Len(r.l) = 2
                        /\ r.l[2] < 256
                        /\ r.l[1] + r.l[2] * Base = d.v % (256 * Base)
                   [] d.kind = "int32" /\ castArg.tp \notin MediumintNames ->
                        /\ r.kind = "uint32"
                        /\ r.l = <<d.v % Base, (d.v \div Base) % Base>>
                   [] d.kind = "int64" ->
                        /\ r.kind = "string"
                        /\ IsUint64Text(r.s)
                        /\ LET u == ParseUint(r.s, Len(r.s))
                           IN  IF d.v < 0
                               THEN /\ IsZero(AddLimbs(u, d.l, 0))
                                    /\ CarryAdd(u, d.l, 0, 4) = 1
                               ELSE u = d.l
                   [] OTHER -> TRUE

C9_Witness ==
    /\ castRes # <<>>
    /\ castArg.unsigned
    /\ castArg.data = Small("int32", -4692783)
    /\ castArg.tp # Mediumint /\ castArg.tp \in MediumintNames
    /\ castRes[1].l[1] + castRes[1].l[2] * Base = 12084433

(***************************************************************************)
(* C10: two calls of findFitIndex, of getAvailableIndexColumn or of        *)
(* genMultipleKeys on the same index catalog and row return the same       *)
(***************************************************************************)
C10_Deterministic ==
    \A i, j \in 1..Len(results) : results[i] = results[j]

====
